---- MODULE Spec2Model ----
(***************************************************************************)
(* Scoring and threshold calibration of the credit-card fraud detector.    *)
(*                                                                         *)
(* The repository is five scripts that share no state; the UI script is    *)
(* followed along its two independent paths:                               *)
(*   "sweep"  src/metrics.py         threshold sweep with de-duplication   *)
(*                                   and the nearest-precision lookup      *)
(*   "grid"   src/metrics_sweep.py   sweep over np.linspace(0, 1, 1000)    *)
(*   "topk"   src/metrics_topk.py    fixed-budget (top-K) evaluation       *)
(*   "api"    src/app/main.py        the /predict handler                  *)
(*   "conf"   src/streamlit_app.py   the saved default threshold           *)
(*   "ui"     src/streamlit_app.py   coerce, the demo model, score         *)
(* prog says which program a behaviour runs; the variables of the other    *)
(* programs keep their initial values.                                     *)
(*                                                                         *)
(* Numbers.  Scores and thresholds of the three calibration scripts and of *)
(* the API are fixed-point integers in units of 1e-7 (One = 1.0), one      *)
(* digit more than the 6 decimals the sweep rounds to.  Derived metrics    *)
(* and every number of the UI are exact rationals [n, d].  NaN is a value  *)
(* of its own, with the comparisons of IEEE-754 (all false).               *)
(***************************************************************************)
EXTENDS Integers, Sequences, FiniteSets, TLC

VARIABLES
    prog,           \* which program runs
    pc,             \* its position
    \* ---- calibration scripts (sweep, grid, topk)
    probs,          \* fraud_scores.csv, column fraud_probability
    truth,          \* creditcard.csv, column Class
    ths,            \* the candidate thresholds
    i,              \* number of candidates consumed by the loop
    rows,           \* list of row dicts
    seen,           \* set of evaluated thresholds
    sweep_df,       \* the table written to threshold_sweep.csv
    tj,             \* number of target precisions reported
    near,           \* the last operating point reported
    K,              \* top-K budget
    ranked,         \* df after sort_values/reset_index: the input row at each rank
    topk,           \* what metrics_topk.py prints
    \* ---- API
    pred_count,     \* PRED_COUNT
    pred_err,       \* PRED_ERR
    resp,           \* last response of /predict
    \* ---- UI
    conf,           \* artifacts/config.json
    default_th,     \* last result of get_default_threshold()
    saved,          \* the last save_default_threshold call and its outcome (history)
    FEATURES,       \* the schema: expected_features()
    feature_stats,  \* the "defaults" of artifacts/feature_stats.json
    model,          \* "demo" (_DemoModel) or "real" (a loaded artifact)
    raw,            \* the frame handed to score()
    raw0,           \* the same frame as the caller built it (history)
    threshold,      \* the slider value
    scored          \* what score() returned

calVars == <<probs, truth, ths, i, rows, seen, sweep_df, tj, near, K, ranked, topk>>
apiVars == <<pred_count, pred_err, resp>>
appVars == <<conf, default_th, saved, FEATURES, feature_stats, model, raw, raw0, threshold, scored>>
vars == <<prog, pc, calVars, apiVars, appVars>>

-----------------------------------------------------------------------------
(* Bounds of the model *)

MaxRows == 2        \* rows of a labelled dataset
MaxThs == 2         \* candidate thresholds of a sweep
GridPoints == 3     \* points of the linspace grid (1000 in the script)
MaxRequests == 2    \* /predict requests
MaxBatch == 1       \* rows of a raw frame handed to score()
MaxScored == 2      \* rows of a well-formed batch handed to score()
MaxSaves == 2       \* save_default_threshold calls

-----------------------------------------------------------------------------
(* Numbers *)

One == 10000000     \* 1.0 in fixed-point units of 1e-7
Micro == 10         \* 1e-6, the rounding step of the sweep, in the same units

\* NaN: the one value that is no number, kept in the shape of the numbers
NaN == [n |-> 0, d |-> 0]

Abs(x) == IF x < 0 THEN -x ELSE x

RECURSIVE GCD(_, _)
GCD(a, b) == IF b = 0 THEN Abs(a) ELSE GCD(b, a % b)

\* the rational n/d in lowest terms with a positive denominator; x/0 is NaN
Frac(n, d) ==
    IF d = 0 THEN NaN
    ELSE LET g == GCD(n, d)
             s == IF d < 0 THEN -1 ELSE 1
         IN  [n |-> s * (n \div g), d |-> s * (d \div g)]

FZero == Frac(0, 1)
FOne == Frac(1, 1)
FInt(k) == Frac(k, 1)

IsNaN(x) == x = NaN
FAdd(a, b) == IF IsNaN(a) \/ IsNaN(b) THEN NaN ELSE Frac(a.n * b.d + b.n * a.d, a.d * b.d)
FSub(a, b) == IF IsNaN(a) \/ IsNaN(b) THEN NaN ELSE Frac(a.n * b.d - b.n * a.d, a.d * b.d)
FMul(a, b) == IF IsNaN(a) \/ IsNaN(b) THEN NaN ELSE Frac(a.n * b.n, a.d * b.d)
FDiv(a, b) == IF IsNaN(a) \/ IsNaN(b) THEN NaN ELSE Frac(a.n * b.d, a.d * b.n)
FAbs(a) == IF IsNaN(a) THEN NaN ELSE Frac(Abs(a.n), a.d)
\* comparisons are false as soon as one side is NaN
FLt(a, b) == ~IsNaN(a) /\ ~IsNaN(b) /\ a.n * b.d < b.n * a.d
FLeq(a, b) == ~IsNaN(a) /\ ~IsNaN(b) /\ a.n * b.d <= b.n * a.d
FGt(a, b) == FLt(b, a)
FGeq(a, b) == FLeq(b, a)
\* Python truthiness of a float: 0.0 is false, anything else (NaN too) is true
Truthy(a) == a # FZero

Range(s) == {s[x] : x \in DOMAIN s}
SeqsUpTo(S, lo, hi) == UNION {[1..n -> S] : n \in lo..hi}


-----------------------------------------------------------------------------
(* The labelled dataset of the calibration scripts *)

\* scores that meet the thresholds below from both sides and exactly
ProbSet == {4, 20, One}
Labels == {0, 1}
Datasets ==
    UNION {[p : [1..n -> ProbSet], y : [1..n -> Labels]] : n \in 1..MaxRows}

\* (cond).sum() over the rows
CountRows(S) == Cardinality(S)

-----------------------------------------------------------------------------
(* Decision: the three places that turn a score into a label *)

\* (fault-seeded variant: a strict comparison, so that a tie is classified negative)
pred_at_strict(ps, th) == [r \in DOMAIN ps |-> IF ps[r] > th THEN 1 ELSE 0]

\* (fault-seeded variant: the comparison turned around, so that raising the
\* threshold flags more rows)
pred_at_reversed(ps, th) == [r \in DOMAIN ps |-> IF ps[r] <= th THEN 1 ELSE 0]

\* metrics_at: pred = (probs >= th).astype(int)
pred_at(ps, th) == [r \in DOMAIN ps |-> IF ps[r] >= th THEN 1 ELSE 0]

\* /predict: label = int(prob >= body.threshold)
predict_label(prob, th) == IF prob >= th THEN 1 ELSE 0

-----------------------------------------------------------------------------
(* ConfusionStats: metrics_at of src/metrics.py *)

\* (fault-seeded variant: fn counted with the condition of tp, a copy-and-paste slip)
metrics_at_fn_slip(ps, ys, th) ==
    LET n == Len(ps)
        pred == pred_at(ps, th)
        tp == CountRows({r \in 1..n : ys[r] = 1 /\ pred[r] = 1})
        fp == CountRows({r \in 1..n : ys[r] = 0 /\ pred[r] = 1})
        tn == CountRows({r \in 1..n : ys[r] = 0 /\ pred[r] = 0})
        fn == CountRows({r \in 1..n : ys[r] = 1 /\ pred[r] = 1})
        precision == IF tp + fp # 0 THEN Frac(tp, tp + fp) ELSE FZero
        recall == IF tp + fn # 0 THEN Frac(tp, tp + fn) ELSE FZero
        f1 == IF Truthy(FAdd(precision, recall))
              THEN FDiv(FMul(FMul(FInt(2), precision), recall), FAdd(precision, recall))
              ELSE FZero
        flagged == CountRows({r \in 1..n : pred[r] = 1})
    IN  [tp |-> tp, fp |-> fp, tn |-> tn, fn |-> fn,
         precision |-> precision, recall |-> recall, f1 |-> f1, flagged |-> flagged]

\* (fault-seeded variant: the divisions without their zero guards)
metrics_at_unguarded(ps, ys, th) ==
    LET n == Len(ps)
        pred == pred_at(ps, th)
        tp == CountRows({r \in 1..n : ys[r] = 1 /\ pred[r] = 1})
        fp == CountRows({r \in 1..n : ys[r] = 0 /\ pred[r] = 1})
        tn == CountRows({r \in 1..n : ys[r] = 0 /\ pred[r] = 0})
        fn == CountRows({r \in 1..n : ys[r] = 1 /\ pred[r] = 0})
        precision == Frac(tp, tp + fp)
        recall == Frac(tp, tp + fn)
        f1 == FDiv(FMul(FMul(FInt(2), precision), recall), FAdd(precision, recall))
        flagged == CountRows({r \in 1..n : pred[r] = 1})
    IN  [tp |-> tp, fp |-> fp, tn |-> tn, fn |-> fn,
         precision |-> precision, recall |-> recall, f1 |-> f1, flagged |-> flagged]

metrics_at(ps, ys, th) ==
    LET n == Len(ps)
        pred == pred_at(ps, th)
        tp == CountRows({r \in 1..n : ys[r] = 1 /\ pred[r] = 1})
        fp == CountRows({r \in 1..n : ys[r] = 0 /\ pred[r] = 1})
        tn == CountRows({r \in 1..n : ys[r] = 0 /\ pred[r] = 0})
        fn == CountRows({r \in 1..n : ys[r] = 1 /\ pred[r] = 0})
        precision == IF tp + fp # 0 THEN Frac(tp, tp + fp) ELSE FZero
        recall == IF tp + fn # 0 THEN Frac(tp, tp + fn) ELSE FZero
        f1 == IF Truthy(FAdd(precision, recall))
              THEN FDiv(FMul(FMul(FInt(2), precision), recall), FAdd(precision, recall))
              ELSE FZero
        flagged == CountRows({r \in 1..n : pred[r] = 1})
    IN  [tp |-> tp, fp |-> fp, tn |-> tn, fn |-> fn,
         precision |-> precision, recall |-> recall, f1 |-> f1, flagged |-> flagged]

\* metrics_at of src/metrics_sweep.py: the same computation, returning
\* (prec, rec, f1, flagged); the four counts are kept for inspection
metrics_at_grid(ps, ys, th) ==
    LET n == Len(ps)
        pred == [r \in 1..n |-> IF ps[r] >= th THEN 1 ELSE 0]
        tp == CountRows({r \in 1..n : ys[r] = 1 /\ pred[r] = 1})
        fp == CountRows({r \in 1..n : ys[r] = 0 /\ pred[r] = 1})
        tn == CountRows({r \in 1..n : ys[r] = 0 /\ pred[r] = 0})
        fn == CountRows({r \in 1..n : ys[r] = 1 /\ pred[r] = 0})
        prec == IF tp + fp # 0 THEN Frac(tp, tp + fp) ELSE FZero
        rec == IF tp + fn # 0 THEN Frac(tp, tp + fn) ELSE FZero
        f1 == IF Truthy(FAdd(prec, rec))
              THEN FDiv(FMul(FMul(FInt(2), prec), rec), FAdd(prec, rec))
              ELSE FZero
        flagged == CountRows({r \in 1..n : pred[r] = 1})
    IN  [tp |-> tp, fp |-> fp, tn |-> tn, fn |-> fn,
         precision |-> prec, recall |-> rec, f1 |-> f1, flagged |-> flagged]

-----------------------------------------------------------------------------
(* ThresholdSweeper: the loop of src/metrics.py *)

\* raw candidates: below 0, a non-tie, two ties of the rounding (1.5 and 2.5
\* micro, both rounding to 2 micro under round-half-even) and above 1
ThSet == {-30, 4, 15, 25, One + 6}

\* np.clip(ths, 0, 1), one element
Clip01(x) == IF x < 0 THEN 0 ELSE IF x > One THEN One ELSE x

\* round(th, 6): to the nearest multiple of 1e-6, ties to the even multiple
Round6(x) ==
    LET q == x \div Micro
        r == x % Micro
    IN  IF 2 * r < Micro THEN q * Micro
        ELSE IF 2 * r > Micro THEN (q + 1) * Micro
        ELSE IF q % 2 = 0 THEN q * Micro ELSE (q + 1) * Micro

SweepRow(th, m) ==
    [threshold |-> th, precision |-> m.precision, recall |-> m.recall,
     f1 |-> m.f1, flagged |-> m.flagged, tp |-> m.tp, fp |-> m.fp,
     tn |-> m.tn, fn |-> m.fn]

\* pd.DataFrame(rows).sort_values("threshold"): ascending by threshold.
\* (An insertion sort; the keys of the table are distinct, so every sorting
\* algorithm gives this order.)
RECURSIVE InsertByThreshold(_, _)
InsertByThreshold(s, row) ==
    IF s = <<>> THEN <<row>>
    ELSE IF s[Len(s)].threshold <= row.threshold THEN Append(s, row)
    ELSE Append(InsertByThreshold(SubSeq(s, 1, Len(s) - 1), row), s[Len(s)])

\* (fault-seeded variant: the table written in the order the rows were appended)
Unsorted(s) == s

RECURSIVE SortByThreshold(_)
SortByThreshold(s) ==
    IF s = <<>> THEN <<>>
    ELSE InsertByThreshold(SortByThreshold(SubSeq(s, 1, Len(s) - 1)), s[Len(s)])

\* one iteration of  for th in np.clip(ths, 0, 1)
SweepStep ==
    /\ prog = "sweep" /\ pc = "loop" /\ i < Len(ths)
    /\ LET th == Round6(Clip01(ths[i + 1]))
       IN  IF th \in seen
           THEN UNCHANGED <<rows, seen>>
           ELSE /\ seen' = seen \cup {th}
                /\ rows' = Append(rows, SweepRow(th, metrics_at(probs, truth, th)))
    /\ i' = i + 1
    /\ UNCHANGED <<prog, pc, probs, truth, ths, sweep_df, tj, near, K, ranked, topk,
                   apiVars, appVars>>

\* df = pd.DataFrame(rows).sort_values("threshold"); df.to_csv(...)
SweepWrite ==
    /\ prog = "sweep" /\ pc = "loop" /\ i = Len(ths)
    /\ sweep_df' = SortByThreshold(rows)
    /\ pc' = "written"
    /\ UNCHANGED <<prog, probs, truth, ths, i, rows, seen, tj, near, K, ranked, topk,
                   apiVars, appVars>>

-----------------------------------------------------------------------------
(* OperatingPointSelector: the report loop of src/metrics.py *)

\* for target_p in [0.2, 0.5, 0.8]
Targets == <<Frac(1, 5), Frac(1, 2), Frac(4, 5)>>

\* (fault-seeded variant: the difference without .abs())
SignedDistance(table, target) ==
    [k \in DOMAIN table |-> FSub(table[k].precision, target)]

\* (df["precision"] - target_p).abs()
Distance(table, target) ==
    [k \in DOMAIN table |-> FAbs(FSub(table[k].precision, target))]

\* .argsort()[:1]: Series.argsort sorts with kind="quicksort", which is not
\* stable, so the first position of the result is some position of the
\* smallest distance, not a particular one
ArgsortHead(dist) ==
    {k \in DOMAIN dist : \A l \in DOMAIN dist : FLeq(dist[k], dist[l])}

SweepNearest ==
    /\ prog = "sweep" /\ pc = "written" /\ tj < Len(Targets)
    /\ LET target == Targets[tj + 1]
       IN  \E k \in ArgsortHead(Distance(sweep_df, target)) :
               near' = [target |-> target, pos |-> k, row |-> sweep_df[k]]
    /\ tj' = tj + 1
    /\ UNCHANGED <<prog, pc, probs, truth, ths, i, rows, seen, sweep_df, K, ranked,
                   topk, apiVars, appVars>>

-----------------------------------------------------------------------------
(* The grid sweep of src/metrics_sweep.py *)

\* np.linspace(0, 1, GridPoints)
Linspace(n) == [k \in 1..n |-> ((k - 1) * One) \div (n - 1)]

\* one element of the list comprehension that builds rows
GridStep ==
    /\ prog = "grid" /\ pc = "loop" /\ i < Len(ths)
    /\ LET th == ths[i + 1]
       IN  rows' = Append(rows, SweepRow(th, metrics_at_grid(probs, truth, th)))
    /\ i' = i + 1
    /\ UNCHANGED <<prog, pc, probs, truth, ths, seen, sweep_df, tj, near, K, ranked,
                   topk, apiVars, appVars>>

\* df = pd.DataFrame(rows); df.to_csv(...)
GridWrite ==
    /\ prog = "grid" /\ pc = "loop" /\ i = Len(ths)
    /\ sweep_df' = rows
    /\ pc' = "written"
    /\ UNCHANGED <<prog, probs, truth, ths, i, rows, seen, tj, near, K, ranked, topk,
                   apiVars, appVars>>

-----------------------------------------------------------------------------
(* Top-K: src/metrics_topk.py *)

Perms(n) == {f \in [1..n -> 1..n] : \A a, b \in 1..n : a # b => f[a] # f[b]}

\* df.sort_values("fraud_probability", ascending=False): the orders that are
\* descending by score.  sort_values sorts with kind="quicksort", which is
\* not stable: rows of equal score come out in an order the sort does not
\* promise, so every descending order is a possible result.
sort_values_desc(ps) ==
    {f \in Perms(Len(ps)) : \A a, b \in 1..Len(ps) : a < b => ps[f[a]] >= ps[f[b]]}

\* lines 9-10: concat, sort, reset_index
TopKSort ==
    /\ prog = "topk" /\ pc = "start"
    /\ ranked' \in sort_values_desc(probs)
    /\ pc' = "sorted"
    /\ UNCHANGED <<prog, probs, truth, ths, i, rows, seen, sweep_df, tj, near, K, topk,
                   apiVars, appVars>>

\* (fault-seeded variant: the slice taken as excluding its end, as a positional slice would)
flag_top_exclusive(n, k) == [r \in 1..n |-> IF r < k THEN 1 ELSE 0]

\* df["is_fraud_pred"] = 0; df.loc[:K-1, "is_fraud_pred"] = 1
\* (.loc slices by label and includes its end: ranks 1..K here)
flag_top(n, k) == [r \in 1..n |-> IF r <= k THEN 1 ELSE 0]

\* lines 12-23, over the ranked frame: Class and fraud_probability by rank
topk_report(cls, ps, k) ==
    LET n == Len(ps)
        is_fraud_pred == flag_top(n, k)
        tp == CountRows({r \in 1..n : cls[r] = 1 /\ is_fraud_pred[r] = 1})
        fp == CountRows({r \in 1..n : cls[r] = 0 /\ is_fraud_pred[r] = 1})
        precision == IF k # 0 THEN Frac(tp, k) ELSE FZero
        recall == Frac(tp, CountRows({r \in 1..n : cls[r] = 1}))
    IN  [is_fraud_pred |-> is_fraud_pred, tp |-> tp, fp |-> fp,
         precision |-> precision, recall |-> recall, implied |-> ps[k]]

TopKReport ==
    /\ prog = "topk" /\ pc = "sorted"
    /\ topk' = topk_report([r \in 1..Len(probs) |-> truth[ranked[r]]],
                           [r \in 1..Len(probs) |-> probs[ranked[r]]], K)
    /\ pc' = "done"
    /\ UNCHANGED <<prog, probs, truth, ths, i, rows, seen, sweep_df, tj, near, K, ranked,
                   apiVars, appVars>>

-----------------------------------------------------------------------------
(* The API: /predict of src/app/main.py *)

\* body.threshold is any float; the loaded model is opaque and answers any score
ApiThSet == {-30, 0, 4, 20, One, One + 6}
ApiProbSet == {0, 4, 20, One}

\* the handler: count, score, label, answer; an exception of the model is
\* counted and re-raised
Predict ==
    /\ prog = "api" /\ pred_count < MaxRequests
    /\ pred_count' = pred_count + 1
    /\ \/ \E prob \in ApiProbSet, th \in ApiThSet :
            /\ resp' = [prob |-> prob, threshold |-> th, label |-> predict_label(prob, th),
                        status |-> 200]
            /\ pred_err' = pred_err
       \/ /\ pred_err' = pred_err + 1
          /\ resp' = [prob |-> 0, threshold |-> 0, label |-> 0, status |-> 500]
    /\ UNCHANGED <<prog, pc, calVars, appVars>>

-----------------------------------------------------------------------------
(* The saved default threshold: src/streamlit_app.py, lines 20-43 *)

\* Python's max(a, b) and min(a, b): the first argument unless the second
\* compares greater (smaller); a NaN first argument is therefore returned
PyMax(a, b) == IF FGt(b, a) THEN b ELSE a
PyMin(a, b) == IF FLt(b, a) THEN b ELSE a

\* float(min(max(v, 0.0), 1.0))
clamp01(v) == PyMin(PyMax(v, FZero), FOne)

\* The value under "threshold" in config.json:
\*   absent  no such key
\*   num     a JSON number (json.loads also reads the literal NaN)
\*   str     a string float() parses, such as "0.25" or "nan"
\*   bad     anything float() raises on: null, "abc", a list
JAbsent == [t |-> "absent", v |-> FZero]
JBad == [t |-> "bad", v |-> FZero]
JNum(v) == [t |-> "num", v |-> v]
JStr(v) == [t |-> "str", v |-> v]

\* config.json: missing, not JSON ("garbage"), JSON that is no object
\* ("nondict"), or an object with its "threshold" and one other key ("other":
\* 0 when absent, else its value)
ConfFile(kind, th, other) == [kind |-> kind, th |-> th, other |-> other]

get_default_threshold(c) ==
    IF c.kind = "dict" /\ c.th.t \in {"num", "str"} THEN clamp01(c.th.v)
    ELSE \* no file, json.loads raised, data.get raised, float() raised,
         \* or the key is absent and .get answered 0.5
         Frac(1, 2)

GetDefault ==
    /\ prog = "conf"
    /\ default_th' = get_default_threshold(conf)
    /\ pc' = "got"
    /\ UNCHANGED <<prog, calVars, apiVars, conf, saved, FEATURES, feature_stats, model,
                   raw, raw0, threshold, scored>>

\* the file save_default_threshold(v) leaves behind when nothing raises
save_default_threshold(c, v) ==
    ConfFile("dict", JNum(clamp01(v)), IF c.kind = "dict" THEN c.other ELSE 0)

\* every numeric argument, in and out of [0, 1]
SaveArgs == {Frac(-1, 2), FZero, Frac(1, 4), FOne, Frac(3, 2)}

\* save_default_threshold(v).  It raises inside (and only warns) when the
\* file holds JSON that is no object (data["threshold"] = ... is a TypeError)
\* or when mkdir/write_text fail; the file is then left as it was.
SaveDefault ==
    /\ prog = "conf" /\ saved.n < MaxSaves
    /\ \E v \in SaveArgs, io_ok \in BOOLEAN :
         LET ok == io_ok /\ conf.kind # "nondict"
         IN  /\ conf' = IF ok THEN save_default_threshold(conf, v) ELSE conf
             /\ saved' = [v |-> v, ok |-> ok, before |-> conf, n |-> saved.n + 1]
    /\ pc' = "saved"
    /\ UNCHANGED <<prog, calVars, apiVars, default_th, FEATURES, feature_stats, model,
                   raw, raw0, threshold, scored>>

-----------------------------------------------------------------------------
(* FeatureCoercer: coerce of src/streamlit_app.py *)

\* A cell of a frame: a number, a string that parses to the number v, a
\* missing value (NaN/None/empty CSV field) or a string that does not parse.
Num(v) == [t |-> "num", v |-> v]
Str(v) == [t |-> "str", v |-> v]
Missing == [t |-> "nan", v |-> 0]
Text == [t |-> "bad", v |-> 0]

\* A frame: the column names in order, and the rows as functions on them.
Frame(cols, data) == [cols |-> cols, data |-> data]

\* pd.to_numeric(x, errors="coerce"), one cell
to_numeric(c) == IF c.t \in {"num", "str"} THEN Num(c.v) ELSE Missing
\* .fillna(0.0), one cell
fillna0(c) == IF c.t = "nan" THEN Num(0) ELSE c

\* the names of cols that df lacks, in the order of cols
RECURSIVE MissingCols(_, _)
MissingCols(cols, have) ==
    IF cols = <<>> THEN <<>>
    ELSE IF cols[1] \in have THEN MissingCols(Tail(cols), have)
    ELSE <<cols[1]>> \o MissingCols(Tail(cols), have)

\* (fault-seeded variant: a missing column filled with 0.0 whatever the defaults say)
add_missing_zero(df, cols, defaults) ==
    LET new == MissingCols(cols, Range(df.cols))
    IN  Frame(df.cols \o new,
              [r \in DOMAIN df.data |->
                  [c \in Range(df.cols) \cup Range(new) |->
                      IF c \in Range(df.cols) THEN df.data[r][c] ELSE Num(0)]])

\* lines 108-110: for c in cols: if c not in df.columns: df[c] = float(defaults.get(c, 0.0))
add_missing(df, cols, defaults) ==
    LET new == MissingCols(cols, Range(df.cols))
        val(c) == IF c \in DOMAIN defaults THEN Num(defaults[c]) ELSE Num(0)
    IN  Frame(df.cols \o new,
              [r \in DOMAIN df.data |->
                  [c \in Range(df.cols) \cup Range(new) |->
                      IF c \in Range(df.cols) THEN df.data[r][c] ELSE val(c)]])

\* (fault-seeded variant: the selection left out, so the frame keeps its keys and their order)
select_nothing(df, cols) == df

\* line 111: df = df[cols]
select(df, cols) ==
    Frame(cols, [r \in DOMAIN df.data |-> [c \in Range(cols) |-> df.data[r][c]]])

\* lines 112-113: df[c] = pd.to_numeric(df[c], errors="coerce").fillna(0.0)
numeric(df) ==
    Frame(df.cols, [r \in DOMAIN df.data |->
                       [c \in Range(df.cols) |-> fillna0(to_numeric(df.data[r][c]))]])

\* coerce(df): "arg" is the caller's frame after the call (coerce works on
\* df.copy()), "out" the frame returned
coerce(df, cols, defaults) ==
    [arg |-> df, out |-> numeric(select(add_missing(df, cols, defaults), cols))]

-----------------------------------------------------------------------------
(* Scorer: the fallback _DemoModel, and score *)

\* A score of the UI is n / (d + e * 1e-9) with integers n, d, e: the demo
\* model divides by amt.max() + 1e-9.  Two such numbers are compared exactly
\* by cross-multiplying and ordering a + b * 1e-9 by a, then by b, which is
\* the order of the reals as long as |b| < 1e9.
EFrac(n, d, e) == [n |-> n, d |-> d, e |-> e]
EQ(q) == EFrac(q.n, q.d, 0)
Sign(x) == IF x < 0 THEN -1 ELSE IF x > 0 THEN 1 ELSE 0
ECmp(p, q) ==
    LET a == p.n * q.d - q.n * p.d
        b == p.n * q.e - q.n * p.e
    IN  IF a # 0 THEN Sign(a) ELSE Sign(b)
EGeq(p, q) == ECmp(p, q) >= 0
ELeq(p, q) == ECmp(p, q) <= 0

P15 == Frac(3, 20)      \* 0.15

\* np.clip(p, 0.0, 0.15), one element
clip15(p) ==
    IF ECmp(p, EQ(FZero)) < 0 THEN EQ(FZero)
    ELSE IF ECmp(p, EQ(P15)) > 0 THEN EQ(P15) ELSE p

RECURSIVE MaxOf(_)
MaxOf(s) ==
    IF Len(s) = 1 THEN s[1]
    ELSE LET m == MaxOf(Tail(s)) IN IF s[1] > m THEN s[1] ELSE m

\* _DemoModel.predict_proba(X), the positive-class column.  amt.max() of a
\* zero-length array raises ValueError.
predict_proba(X) ==
    LET n == Len(X.data)
        amt == IF "Amount" \in Range(X.cols)
               THEN [r \in 1..n |-> X.data[r]["Amount"].v]
               ELSE [r \in 1..n |-> 0]
    IN  IF n = 0 THEN [raised |-> TRUE, p |-> <<>>]
        ELSE LET mx == MaxOf(amt)
                 p == IF mx > 0
                      THEN [r \in 1..n |-> EFrac(P15.n * amt[r], P15.d * mx, P15.d)]
                      ELSE [r \in 1..n |-> EQ(FZero)]
             IN  [raised |-> FALSE, p |-> [r \in 1..n |-> clip15(p[r])]]

\* out["is_fraud_pred"] = (out["fraud_probability"] >= threshold).astype(int)
score_label(p, th) == IF EGeq(p, EQ(th)) THEN 1 ELSE 0

\* score(df, threshold) with the model's answer proba (raised: predict_proba
\* raised and, the model having neither decision_function nor predict, the
\* score column is None)
score(df, th, cols, defaults, proba) ==
    LET c == coerce(df, cols, defaults)
    IN  [arg |-> c.arg, X |-> c.out, raised |-> proba.raised,
         fraud_probability |-> proba.p,
         is_fraud_pred |-> [r \in DOMAIN proba.p |-> score_label(proba.p[r], th)],
         threshold |-> th]

\* a loaded artifact is opaque: any score per row
RealProbSet == {EQ(Frac(1, 10)), EQ(FOne)}
\* the slider: 0.0 to 1.0 in steps of 0.001
SliderSet == {FZero, Frac(1, 10), P15, FOne}

Score ==
    /\ prog = "ui" /\ pc = "ready"
    /\ \E th \in SliderSet :
         \E proba \in IF model = "demo"
                      THEN {predict_proba(coerce(raw, FEATURES, feature_stats).out)}
                      ELSE {[raised |-> FALSE, p |-> q] :
                                q \in [1..Len(raw.data) -> RealProbSet]} :
            LET s == score(raw, th, FEATURES, feature_stats, proba)
            IN  /\ raw' = s.arg
                /\ scored' = s
                /\ threshold' = th
    /\ pc' = "scored"
    /\ UNCHANGED <<prog, calVars, apiVars, conf, default_th, saved, FEATURES,
                   feature_stats, model, raw0>>

-----------------------------------------------------------------------------
(* Initial states *)

NoRow == SweepRow(0, metrics_at(<<>>, <<>>, 0))
NoNear == [target |-> FZero, pos |-> 0, row |-> NoRow]
NoTopK ==
    [is_fraud_pred |-> <<>>, tp |-> 0, fp |-> 0, precision |-> FZero,
     recall |-> FZero, implied |-> 0]
NoResp == [prob |-> 0, threshold |-> 0, label |-> 0, status |-> 0]
NoConf == ConfFile("missing", JAbsent, 0)
NoSave == [v |-> FZero, ok |-> FALSE, before |-> NoConf, n |-> 0]
NoFrame == Frame(<<>>, <<>>)
NoScore ==
    [arg |-> NoFrame, X |-> NoFrame, raised |-> FALSE, fraud_probability |-> <<>>,
     is_fraud_pred |-> <<>>, threshold |-> FZero]
NoDefaults == [c \in {} |-> 0]

ApiIdle == pred_count = 0 /\ pred_err = 0 /\ resp = NoResp

ConfIdle == conf = NoConf /\ default_th = FZero /\ saved = NoSave

UiIdle ==
    /\ FEATURES = <<>> /\ feature_stats = NoDefaults /\ model = "none"
    /\ raw = NoFrame /\ raw0 = NoFrame /\ threshold = FZero /\ scored = NoScore

CalStart ==
    /\ i = 0 /\ rows = <<>> /\ seen = {} /\ sweep_df = <<>> /\ tj = 0 /\ near = NoNear
    /\ ranked = <<>> /\ topk = NoTopK

CalIdle == probs = <<>> /\ truth = <<>> /\ ths = <<>> /\ K = 0 /\ CalStart

InitSweep ==
    /\ prog = "sweep" /\ pc = "loop"
    /\ \E ds \in Datasets : probs = ds.p /\ truth = ds.y
    /\ ths \in SeqsUpTo(ThSet, 1, MaxThs)
    /\ K = 0 /\ CalStart /\ ApiIdle /\ ConfIdle /\ UiIdle

InitGrid ==
    /\ prog = "grid" /\ pc = "loop"
    /\ \E ds \in Datasets : probs = ds.p /\ truth = ds.y
    /\ ths = Linspace(GridPoints)
    /\ K = 0 /\ CalStart /\ ApiIdle /\ ConfIdle /\ UiIdle

InitTopK ==
    /\ prog = "topk" /\ pc = "start"
    /\ \E ds \in Datasets : probs = ds.p /\ truth = ds.y /\ K \in 1..Len(ds.p)
    /\ ths = <<>>
    /\ CalStart /\ ApiIdle /\ ConfIdle /\ UiIdle

InitApi == prog = "api" /\ pc = "serving" /\ CalIdle /\ ApiIdle /\ ConfIdle /\ UiIdle

\* any config file: none, unreadable, or an object with any "threshold"
ThresholdValues ==
    {JAbsent, JBad, JStr(Frac(1, 4)), JStr(NaN), JNum(NaN)} \cup {JNum(v) : v \in SaveArgs}
ConfFiles ==
    {ConfFile(k, JAbsent, 0) : k \in {"missing", "garbage", "nondict"}}
    \cup {ConfFile("dict", th, o) : th \in ThresholdValues, o \in {0, 1}}

InitConf ==
    /\ prog = "conf" /\ pc = "start"
    /\ conf \in ConfFiles /\ default_th = FZero /\ saved = NoSave
    /\ CalIdle /\ ApiIdle /\ UiIdle

\* the schemas: with and without an Amount feature
FeatureOrders == {<<"V1", "Amount">>, <<"V1">>}
\* the keys a raw record may hold: the features and one that is no feature
RawKeys == {"V1", "Amount", "Extra"}
TrainedDefaults == [c \in {"V1", "Amount"} |-> IF c = "Amount" THEN 10 ELSE 3]
DefaultsFor(cols) ==
    {[c \in D |-> TrainedDefaults[c]] : D \in SUBSET Range(cols)}

\* what a cell under a key may hold
CellsOf(key) == IF key = "Extra" THEN {Text} ELSE {Num(1), Str(7), Missing, Text}
Orders(S) == {c \in SeqsUpTo(S, 0, Cardinality(S)) :
                 \A a, b \in DOMAIN c : a # b => c[a] # c[b]}
RawRows(keys) == {f \in [keys -> UNION {CellsOf(k) : k \in keys}] :
                     \A k \in keys : f[k] \in CellsOf(k)}
\* raw frames: any keys in any order, any cells, up to MaxBatch rows
RawFrames ==
    {Frame(c, d) : c \in Orders(RawKeys), d \in {<<>>}} \cup
    UNION {UNION {{Frame(c, d) : d \in [1..n -> RawRows(Range(c))]}
                  : c \in Orders(RawKeys)} : n \in 1..MaxBatch}
\* well-formed batches: the schema's columns, numbers only, up to MaxScored rows
AmountSet == {-1, 0, 2, 5}
WellCells(key) == IF key = "Amount" THEN {Num(a) : a \in AmountSet} ELSE {Num(0)}
WellRows(keys) == {f \in [keys -> UNION {WellCells(k) : k \in keys}] :
                      \A k \in keys : f[k] \in WellCells(k)}
WellFormed(cols) ==
    UNION {{Frame(cols, d) : d \in [1..n -> WellRows(Range(cols))]}
           : n \in 0..MaxScored}

InitUi ==
    /\ prog = "ui" /\ pc = "ready"
    /\ FEATURES \in FeatureOrders
    /\ feature_stats \in DefaultsFor(FEATURES)
    /\ model \in {"demo", "real"}
    /\ raw \in RawFrames \cup WellFormed(FEATURES)
    /\ raw0 = raw /\ threshold = FZero /\ scored = NoScore
    /\ CalIdle /\ ApiIdle /\ ConfIdle

Init == InitSweep \/ InitGrid \/ InitTopK \/ InitApi \/ InitConf \/ InitUi

Next ==
    \/ SweepStep \/ SweepWrite \/ SweepNearest
    \/ GridStep \/ GridWrite
    \/ TopKSort \/ TopKReport
    \/ Predict
    \/ GetDefault \/ SaveDefault
    \/ Score

Spec == Init /\ [][Next]_vars

\* the programs one at a time
NextCal == SweepStep \/ SweepWrite \/ SweepNearest \/ GridStep \/ GridWrite
SpecCal == (InitSweep \/ InitGrid) /\ [][NextCal]_vars
NextTopK == TopKSort \/ TopKReport
SpecTopK == InitTopK /\ [][NextTopK]_vars
NextConf == GetDefault \/ SaveDefault
SpecConf == InitConf /\ [][NextConf]_vars
SpecUi == InitUi /\ [][Score]_vars


-----------------------------------------------------------------------------
(* Claims *)

\* the rows evaluated so far by a sweep (src/metrics.py or src/metrics_sweep.py)
EvaluatedRows == Range(rows)

\* C1 (Decision).  The label is 1 exactly when p >= t, a tie included, and 0
\* otherwise, at each place a decision is made: the rows a sweep counts as
\* flagged, true/false positives and negatives are those with probs >= th;
\* the label /predict answers; the is_fraud_pred of score().  For a fixed
\* score, no threshold at or above the one used gives label 1 where the one
\* used gave 0.
C1_DecisionIsGeq ==
    /\ \A row \in EvaluatedRows :
         LET pos(y) == {r \in DOMAIN probs : truth[r] = y /\ probs[r] >= row.threshold}
             neg(y) == {r \in DOMAIN probs : truth[r] = y /\ ~(probs[r] >= row.threshold)}
         IN  /\ row.tp = Cardinality(pos(1)) /\ row.fp = Cardinality(pos(0))
             /\ row.fn = Cardinality(neg(1)) /\ row.tn = Cardinality(neg(0))
             /\ \A t \in Range(ths) \cup ThSet \cup ProbSet :
                  t >= row.threshold =>
                     \A r \in DOMAIN probs :
                        pred_at(probs, t)[r] = 1 => probs[r] >= row.threshold
    /\ resp.status = 200 =>
         /\ resp.label \in {0, 1}
         /\ resp.label = 1 <=> resp.prob >= resp.threshold
         /\ \A t \in ApiThSet :
              t >= resp.threshold => predict_label(resp.prob, t) <= resp.label
    /\ \A r \in DOMAIN scored.fraud_probability :
         LET p == scored.fraud_probability[r]
         IN  /\ scored.is_fraud_pred[r] \in {0, 1}
             /\ scored.is_fraud_pred[r] = 1 <=> ECmp(p, EQ(scored.threshold)) >= 0
             /\ \A t \in SliderSet :
                  FGeq(t, scored.threshold) => score_label(p, t) <= scored.is_fraud_pred[r]

\* C1 witness: a tie has been classified positive by a sweep, and a score
\* just below its threshold negative
C1_Witness ==
    /\ prog = "sweep"
    /\ \E row \in EvaluatedRows :
         /\ \E r \in DOMAIN probs : probs[r] = row.threshold /\ truth[r] = 1
         /\ \E r \in DOMAIN probs : probs[r] < row.threshold /\ truth[r] = 1
         /\ row.tp = 1 /\ row.fn = 1

\* C2 (ConfusionCounts).  For every evaluated threshold, TP+FP+TN+FN is the
\* number of scored rows and flagged is TP+FP.
C2_CountsConserved ==
    \A row \in EvaluatedRows :
        /\ row.tp + row.fp + row.tn + row.fn = Len(probs)
        /\ row.flagged = row.tp + row.fp

\* C2 witness: a row of the table with a true positive and a false positive
C2_Witness ==
    \E row \in EvaluatedRows : row.tp = 1 /\ row.fp = 1 /\ row.flagged = 2

\* C3 (zero-denominator policy).  precision is 0.0 when nothing is flagged,
\* else TP/(TP+FP); recall is 0.0 when nothing is truth-positive, else
\* TP/(TP+FN); f1 is 0.0 when precision+recall is 0, else
\* 2*precision*recall/(precision+recall); none of them is ever undefined.
C3_ZeroDenominatorPolicy ==
    \A row \in EvaluatedRows :
        /\ ~IsNaN(row.precision) /\ ~IsNaN(row.recall) /\ ~IsNaN(row.f1)
        /\ row.tp + row.fp = 0 => row.precision = FZero
        /\ row.tp + row.fp # 0 => row.precision.n * (row.tp + row.fp) = row.tp * row.precision.d
        /\ row.tp + row.fn = 0 => row.recall = FZero
        /\ row.tp + row.fn # 0 => row.recall.n * (row.tp + row.fn) = row.tp * row.recall.d
        /\ FAdd(row.precision, row.recall) = FZero => row.f1 = FZero
        /\ FAdd(row.precision, row.recall) # FZero =>
              FMul(row.f1, FAdd(row.precision, row.recall))
                  = FMul(FInt(2), FMul(row.precision, row.recall))

\* C3 witness: a threshold that flags nothing on a dataset with no positive
\* (all three denominators are zero), evaluated next to one that flags a
\* false positive
C3_Witness ==
    /\ \E row \in EvaluatedRows :
         row.tp + row.fp = 0 /\ row.tp + row.fn = 0 /\ row.precision = FZero
         /\ row.recall = FZero /\ row.f1 = FZero
    /\ \E row \in EvaluatedRows : row.fp > 0

\* the thresholds of a table, and what the candidates clamp and round to
Thresholds(table) == {table[k].threshold : k \in DOMAIN table}
\* y is x rounded to 6 decimals: a multiple of 1e-6 at most half a step away
IsRounded6(x, y) == y % Micro = 0 /\ 2 * Abs(y - x) <= Micro
IsClamped(x, y) ==
    (x < 0 /\ y = 0) \/ (x > One /\ y = One) \/ (0 <= x /\ x <= One /\ y = x)
Evaluated(cands) == {Round6(Clip01(c)) : c \in cands}
\* t is candidate x clamped to [0,1] and rounded to 6 decimals
IsEvaluationOf(x, t) == \E y \in {0, One, x} : IsClamped(x, y) /\ IsRounded6(y, t)

\* C4 (sweep de-duplication).  In the loop of src/metrics.py the thresholds
\* of rows are the seen set, one row each, and they are the clamped and
\* rounded candidates consumed so far; the table written is strictly
\* increasing in threshold, within [0,1], and holds every distinct clamped
\* and rounded candidate exactly once.
C4_SweepDedup ==
    prog = "sweep" =>
        /\ Thresholds(rows) = seen
        /\ Len(rows) = Cardinality(seen)
        /\ seen = Evaluated({ths[k] : k \in 1..i})
        /\ \A t \in seen : 0 <= t /\ t <= One /\ \E k \in 1..i : IsEvaluationOf(ths[k], t)
        /\ \A k \in 1..i : \E t \in seen : IsEvaluationOf(ths[k], t)
        /\ pc = "written" =>
             /\ \A a, b \in DOMAIN sweep_df :
                  a < b => sweep_df[a].threshold < sweep_df[b].threshold
             /\ Thresholds(sweep_df) = Evaluated(Range(ths))
             /\ Len(sweep_df) = Cardinality(Evaluated(Range(ths)))
             /\ Range(sweep_df) = Range(rows)

\* C4 witness: candidates out of order, one above 1 and one below 0, written
\* as the two rows 0.0 and 1.0
C4_Witness ==
    /\ prog = "sweep" /\ pc = "written"
    /\ Len(ths) = 2 /\ ths[1] > One /\ ths[2] < 0
    /\ Len(sweep_df) = 2 /\ sweep_df[1].threshold = 0 /\ sweep_df[2].threshold = One


\* what coerce is asked for and what it answers, per row r and feature c
Present(c) == c \in Range(raw0.cols)
Parses(cell) == cell.t \in {"num", "str"}
DefaultOrZero(c) == IF c \in DOMAIN feature_stats THEN feature_stats[c] ELSE 0

\* C5 as claimed (coerce).  Each feature is the parsed number when it is
\* present and parses, and otherwise (feature missing, value missing, value
\* not parsing) the schema default when there is one, else 0.0.
C5_Claimed ==
    pc = "scored" =>
        \A r \in DOMAIN scored.X.data : \A c \in Range(FEATURES) :
            scored.X.data[r][c] =
                IF Present(c) /\ Parses(raw0.data[r][c])
                THEN Num(raw0.data[r][c].v) ELSE Num(DefaultOrZero(c))

\* C5 as amended (coerce).  A feature whose column is absent from the input
\* is the schema default when there is one, else 0.0; a feature whose column
\* is present is the parsed number when the value parses, and 0.0 when the
\* value is missing or does not parse, whatever the defaults.
C5_CoerceValues ==
    pc = "scored" =>
        \A r \in DOMAIN scored.X.data : \A c \in Range(FEATURES) :
            scored.X.data[r][c] =
                IF ~Present(c) THEN Num(DefaultOrZero(c))
                ELSE IF Parses(raw0.data[r][c]) THEN Num(raw0.data[r][c].v)
                ELSE Num(0)

\* C5 witness: a record {"V1": "abc"} under defaults for V1 and Amount: the
\* absent Amount takes its default 10, the unparseable V1 becomes 0.0
C5_Witness ==
    /\ pc = "scored" /\ FEATURES = <<"V1", "Amount">>
    /\ raw0.cols = <<"V1">> /\ Len(raw0.data) = 1 /\ raw0.data[1]["V1"] = Text
    /\ DOMAIN feature_stats = {"V1", "Amount"}
    /\ scored.X.data[1]["Amount"] = Num(10) /\ scored.X.data[1]["V1"] = Num(0)

\* C6 (coerce, shape).  The frame coerce returns has the schema's names as
\* its columns, in schema order, as many rows as the input, a number in
\* every cell, and the caller's frame is as it was.
C6_CoerceShape ==
    pc = "scored" =>
        /\ scored.X.cols = FEATURES
        /\ Len(scored.X.cols) = Len(FEATURES)
        /\ Len(scored.X.data) = Len(raw0.data)
        /\ \A r \in DOMAIN scored.X.data :
             /\ DOMAIN scored.X.data[r] = Range(FEATURES)
             /\ \A c \in Range(FEATURES) :
                  scored.X.data[r][c].t = "num" /\ scored.X.data[r][c].v \in Int
        /\ raw = raw0

\* C6 witness: a record with an extra key, its keys in another order than
\* the schema's and an unparseable Amount has been coerced
C6_Witness ==
    /\ pc = "scored" /\ FEATURES = <<"V1", "Amount">>
    /\ raw0.cols = <<"Extra", "Amount", "V1">> /\ Len(raw0.data) = 1
    /\ raw0.data[1]["Amount"] = Text /\ raw0.data[1]["V1"] = Str(7)
    /\ scored.X.data[1] = [c \in {"V1", "Amount"} |-> IF c = "V1" THEN Num(7) ELSE Num(0)]

\* the input rows top-K flags, and the parts of C7 that do not depend on
\* how ties are ordered
FlaggedRows == {ranked[r] : r \in {q \in DOMAIN ranked : topk.is_fraud_pred[q] = 1}}
TruthPositives == {x \in DOMAIN truth : truth[x] = 1}
IsDescending == \A a, b \in DOMAIN ranked : a < b => probs[ranked[a]] >= probs[ranked[b]]
IsStable ==
    \A a, b \in DOMAIN ranked :
        a < b /\ probs[ranked[a]] = probs[ranked[b]] => ranked[a] < ranked[b]
C7_Counts ==
    /\ Range(ranked) = DOMAIN probs
    /\ Cardinality(FlaggedRows) = K
    /\ topk.tp + topk.fp = K
    /\ FlaggedRows = {ranked[r] : r \in 1..K}
    /\ topk.tp = Cardinality(FlaggedRows \cap TruthPositives)
    /\ topk.precision = Frac(topk.tp, K)
    /\ topk.recall = Frac(topk.tp, Cardinality(TruthPositives))
    /\ topk.implied = probs[ranked[K]]
    /\ \A x \in FlaggedRows : topk.implied <= probs[x]

\* C7 as claimed (top-K).  Exactly k rows are flagged, the first k of the
\* ranking by score descending in which rows of equal score keep their
\* original order; precision is TP/k, recall TP/(truth positives), and the
\* implied threshold is the score of the k-th ranked row, the smallest
\* flagged score.
C7_Claimed == (prog = "topk" /\ pc = "done") => C7_Counts /\ IsDescending /\ IsStable

\* C7 as amended (top-K).  The same, with the ranking being some order that
\* is descending by score: no flagged row scores below an unflagged one, and
\* which rows of equal score rank first is not determined.
C7_TopK ==
    (prog = "topk" /\ pc = "done") =>
        /\ C7_Counts /\ IsDescending
        /\ \A x \in FlaggedRows, y \in DOMAIN probs \ FlaggedRows : probs[x] >= probs[y]

\* C7 witness: two rows of equal score, k = 1, and the second row ranked
\* first, so that the flagged row is the legitimate one
C7_Witness ==
    /\ prog = "topk" /\ pc = "done" /\ K = 1
    /\ Len(probs) = 2 /\ probs[1] = probs[2] /\ truth = <<1, 0>>
    /\ ranked = <<2, 1>> /\ topk.tp = 0 /\ topk.fp = 1

\* the distance of row k of the table from the last target reported
C8_Dist(k) == FAbs(FSub(sweep_df[k].precision, near.target))
C8_Nearest ==
    /\ near.target = Targets[tj]
    /\ near.pos \in DOMAIN sweep_df
    /\ near.row = sweep_df[near.pos]
    /\ \A l \in DOMAIN sweep_df : FLeq(C8_Dist(near.pos), C8_Dist(l))

\* C8 as claimed (operating point).  The row reported for a target
\* precision minimises abs(precision - target) over the table, and among
\* the rows that attain the minimum it is the one of lowest threshold.
C8_Claimed ==
    (prog = "sweep" /\ tj > 0) =>
        /\ C8_Nearest
        /\ \A l \in DOMAIN sweep_df : l < near.pos => FLt(C8_Dist(near.pos), C8_Dist(l))

\* C8 as amended (operating point).  The row reported minimises
\* abs(precision - target) over the table; when several rows attain the
\* minimum, which of them is reported is not determined.
C8_NearestRow == (prog = "sweep" /\ tj > 0) => C8_Nearest

\* C8 witness: two rows as far from the target as each other, and the one
\* of higher threshold reported
C8_Witness ==
    /\ prog = "sweep" /\ tj > 0 /\ Len(sweep_df) = 2 /\ near.pos = 2
    /\ C8_Dist(1) = C8_Dist(2)
    /\ sweep_df[1].precision # sweep_df[2].precision

\* the clamp of a number to [0, 1], and membership of [0, 1]
InUnit(x) == FLeq(FZero, x) /\ FLeq(x, FOne)
Clamped(v) == IF FLt(v, FZero) THEN FZero ELSE IF FGt(v, FOne) THEN FOne ELSE v
Readable(c) == c.kind \in {"nondict", "dict"}

\* C9 (default threshold).  Whatever config.json held at first and whatever
\* was saved since, get_default_threshold answers a value in [0,1]; right
\* after a successful save_default_threshold(v) it answers v clamped to
\* [0,1]; with no readable config it answers 0.5; and a successful save
\* keeps the other keys of a readable config.
C9_Claimed ==
    prog = "conf" =>
        /\ pc = "got" => InUnit(default_th)
        /\ (pc = "saved" /\ saved.ok) => get_default_threshold(conf) = Clamped(saved.v)
        /\ ~Readable(conf) => get_default_threshold(conf) = Frac(1, 2)
        /\ (pc = "saved" /\ saved.ok /\ saved.before.kind = "dict") =>
              conf.other = saved.before.other

\* the part of C9 that holds of the code: everything but the range of the
\* answer while the file's own "threshold" is NaN
C9_Rest ==
    prog = "conf" =>
        /\ (pc = "got" /\ ~IsNaN(default_th)) => InUnit(default_th)
        /\ (pc = "got" /\ IsNaN(default_th)) =>
              conf.kind = "dict" /\ conf.th.t \in {"num", "str"} /\ IsNaN(conf.th.v)
        /\ (pc = "saved" /\ saved.ok) => get_default_threshold(conf) = Clamped(saved.v)
        /\ ~Readable(conf) => get_default_threshold(conf) = Frac(1, 2)
        /\ (pc = "saved" /\ saved.ok /\ saved.before.kind = "dict") =>
              conf.other = saved.before.other

\* the Amount of row r of the coerced batch, as the demo model reads it
AmountOf(r) ==
    IF "Amount" \in Range(scored.X.cols) THEN scored.X.data[r]["Amount"].v ELSE 0
C10_Scores ==
    /\ Len(scored.fraud_probability) = Len(scored.X.data)
    /\ \A r \in DOMAIN scored.fraud_probability :
         /\ EGeq(scored.fraud_probability[r], EQ(FZero))
         /\ ELeq(scored.fraud_probability[r], EQ(P15))
    /\ \A a, b \in DOMAIN scored.fraud_probability :
         AmountOf(a) > AmountOf(b) =>
            EGeq(scored.fraud_probability[a], scored.fraud_probability[b])

\* C10 (demo scorer).  On every batch of feature vectors, the zero-length
\* one included, predict_proba returns without raising one score per row,
\* each in [0, 0.15], and a row of larger Amount never scores lower.
C10_Claimed ==
    (pc = "scored" /\ model = "demo") => ~scored.raised /\ C10_Scores

\* the part of C10 that holds of the code: the same on batches of one row
\* or more, and the zero-length batch raises
C10_Rest ==
    (pc = "scored" /\ model = "demo") =>
        /\ scored.raised <=> Len(scored.X.data) = 0
        /\ ~scored.raised => C10_Scores

\* the rows of the dataset flagged at threshold t; the thresholds the
\* monotonicity is examined at: every candidate, raw and as the sweep
\* evaluates it, and every score; and what the running script computes there
C11_FlaggedAt(t) == {r \in DOMAIN probs : pred_at(probs, t)[r] = 1}
C11_Thresholds == ThSet \cup ProbSet \cup Range(ths) \cup Evaluated(Range(ths))
C11_At ==
    {[t |-> t, flaggedRows |-> C11_FlaggedAt(t),
      m |-> IF prog = "grid" THEN metrics_at_grid(probs, truth, t)
            ELSE metrics_at(probs, truth, t)] : t \in C11_Thresholds}
C11_NoHigher(m2, m1) ==
    /\ m2.flagged <= m1.flagged /\ m2.tp <= m1.tp /\ m2.fp <= m1.fp
    /\ FLeq(m2.recall, m1.recall)

\* C11 (monotonic threshold-to-metric mapping).  For the dataset of a sweep
\* and any two thresholds t1 <= t2, the rows flagged at t2 are among those
\* flagged at t1, and flagged, TP, FP and recall at t2 are each at most their
\* values at t1 (the dataset never changes, so this is examined where the
\* script starts); the same holds between any two rows the sweep has
\* evaluated; and the table written is ascending in threshold with flagged
\* and recall non-increasing from row to row.
C11_Monotonic ==
    /\ i = 0 =>
         \A x1, x2 \in C11_At :
            x1.t <= x2.t =>
               /\ x2.flaggedRows \subseteq x1.flaggedRows
               /\ C11_NoHigher(x2.m, x1.m)
    /\ \A r1, r2 \in EvaluatedRows :
         r1.threshold <= r2.threshold => C11_NoHigher(r2, r1)
    /\ pc = "written" =>
         \A a, b \in DOMAIN sweep_df :
            a < b => /\ sweep_df[a].threshold <= sweep_df[b].threshold
                     /\ sweep_df[b].flagged <= sweep_df[a].flagged
                     /\ FLeq(sweep_df[b].recall, sweep_df[a].recall)

\* C11 witness: the de-duplicating sweep evaluated the higher threshold
\* first, and the table written has flagged, TP and recall strictly lower
\* in its second row than in its first
C11_Witness ==
    /\ prog = "sweep" /\ pc = "written" /\ Len(rows) = 2 /\ Len(sweep_df) = 2
    /\ rows[1].threshold > rows[2].threshold
    /\ sweep_df[1].threshold < sweep_df[2].threshold
    /\ sweep_df[2].flagged < sweep_df[1].flagged
    /\ sweep_df[2].tp < sweep_df[1].tp
    /\ FLt(sweep_df[2].recall, sweep_df[1].recall)
    /\ sweep_df[2].flagged > 0

=============================================================================
